---------------------------- MODULE Spec2Model ----------------------------
(***************************************************************************)
(* A model of AwsS3App (src/src/universal_mcp_aws_s3/app.py): an adapter   *)
(* exposing S3 bucket and object operations as tools.  The adapter keeps   *)
(* one field of its own, the lazily built client handle; everything else   *)
(* is the state of the storage service, which the model carries so that    *)
(* the effect of each operation can be observed.                           *)
(*                                                                         *)
(* Text is a sequence of Unicode code points, bytes a sequence of          *)
(* integers 0..255; str.encode/bytes.decode and the base64 codec are       *)
(* modelled by what they compute.                                          *)
(***************************************************************************)
EXTENDS Integers, Sequences, FiniteSets, TLC

(***************************************************************************)
(* Return values.  A Python value is a record tagged with its kind.        *)
(***************************************************************************)
(* Python's None *)
None == <<>>

Bool(b) == [kind |-> "bool", v |-> b]
Dict(d) == [kind |-> "dict", v |-> d]
List(l) == [kind |-> "list", v |-> l]
StrVal(s) == [kind |-> "str", v |-> s]
NoValue == [kind |-> "none", v |-> None]

(* the result the caller has taken: nothing is pending *)
Idle == [op |-> "idle", outcome |-> "return", exc |-> "", failed |-> FALSE,
         calls |-> <<>>, args |-> None, value |-> NoValue]

IsErrorDict(value) == value.kind = "dict" /\ "error" \in DOMAIN value.v

(***************************************************************************)
(* Characters.  Ord gives the code point of each character the model's     *)
(* literals use; Str turns a tuple of characters into text.                *)
(***************************************************************************)
Ord ==
    ("a" :> 97) @@ ("b" :> 98) @@ ("c" :> 99) @@ ("d" :> 100) @@ ("e" :> 101)
    @@ ("f" :> 102) @@ ("g" :> 103) @@ ("h" :> 104) @@ ("i" :> 105)
    @@ ("j" :> 106) @@ ("k" :> 107) @@ ("l" :> 108) @@ ("m" :> 109)
    @@ ("n" :> 110) @@ ("o" :> 111) @@ ("p" :> 112) @@ ("q" :> 113)
    @@ ("r" :> 114) @@ ("s" :> 115) @@ ("t" :> 116) @@ ("u" :> 117)
    @@ ("v" :> 118) @@ ("w" :> 119) @@ ("x" :> 120) @@ ("y" :> 121)
    @@ ("z" :> 122) @@ ("A" :> 65) @@ ("B" :> 66) @@ ("C" :> 67)
    @@ ("D" :> 68) @@ ("E" :> 69) @@ ("F" :> 70) @@ ("G" :> 71)
    @@ ("H" :> 72) @@ ("I" :> 73) @@ ("J" :> 74) @@ ("K" :> 75)
    @@ ("L" :> 76) @@ ("M" :> 77) @@ ("N" :> 78) @@ ("O" :> 79)
    @@ ("P" :> 80) @@ ("Q" :> 81) @@ ("R" :> 82) @@ ("S" :> 83)
    @@ ("T" :> 84) @@ ("U" :> 85) @@ ("V" :> 86) @@ ("W" :> 87)
    @@ ("X" :> 88) @@ ("Y" :> 89) @@ ("Z" :> 90) @@ ("0" :> 48)
    @@ ("1" :> 49) @@ ("2" :> 50) @@ ("3" :> 51) @@ ("4" :> 52)
    @@ ("5" :> 53) @@ ("6" :> 54) @@ ("7" :> 55) @@ ("8" :> 56)
    @@ ("9" :> 57) @@ ("." :> 46) @@ ("/" :> 47) @@ ("=" :> 61)
    @@ ("+" :> 43) @@ ("!" :> 33) @@ ("-" :> 45) @@ ("_" :> 95)
    @@ (" " :> 32) @@ ("e'" :> 233) @@ ("E'" :> 201) @@ ("euro" :> 8364)

Str(chars) == [i \in 1..Len(chars) |-> Ord[chars[i]]]

Slash == Ord["/"]

(* str.lower(): ASCII and Latin-1 capitals move 32 code points up. *)
LowerChar(c) ==
    IF c \in 65..90 THEN c + 32
    ELSE IF c \in (192..222) \ {215} THEN c + 32
    ELSE c

Lower(s) == [i \in 1..Len(s) |-> LowerChar(s[i])]

(* str.upper(), on the same ranges. *)
UpperChar(c) ==
    IF c \in 97..122 THEN c - 32
    ELSE IF c \in (224..254) \ {247} THEN c - 32
    ELSE c

Upper(s) == [i \in 1..Len(s) |-> UpperChar(s[i])]

(* s.rstrip(c) for a single character c. *)
RECURSIVE RStrip(_, _)
RStrip(s, c) ==
    IF s # <<>> /\ s[Len(s)] = c THEN RStrip(SubSeq(s, 1, Len(s) - 1), c) ELSE s

(* s.endswith(suf) *)
EndsWith(s, suf) ==
    /\ Len(suf) <= Len(s)
    /\ SubSeq(s, Len(s) - Len(suf) + 1, Len(s)) = suf

(* s.startswith(pre): how the service selects the keys under a Prefix. *)
StartsWith(s, pre) ==
    /\ Len(pre) <= Len(s)
    /\ SubSeq(s, 1, Len(pre)) = pre

(* sub in s *)
Contains(sub, s) ==
    \E i \in 0..(Len(s) - Len(sub)) : SubSeq(s, i + 1, i + Len(sub)) = sub

(* s.split('/')[-1]: what follows the last slash, or all of s. *)
RECURSIVE LastSegment(_)
LastSegment(s) ==
    IF s = <<>> THEN <<>>
    ELSE IF s[Len(s)] = Slash THEN <<>>
    ELSE LastSegment(SubSeq(s, 1, Len(s) - 1)) \o <<s[Len(s)]>>

(***************************************************************************)
(* UTF-8.  Utf8Encode is str.encode('utf-8'); Utf8Decode is                *)
(* bytes.decode('utf-8'), whose failure (UnicodeDecodeError) is the value  *)
(* DecodeError.                                                            *)
(***************************************************************************)
DecodeError == "UnicodeDecodeError"

Utf8Char(cp) ==
    IF cp < 128 THEN <<cp>>
    ELSE IF cp < 2048 THEN <<192 + (cp \div 64), 128 + (cp % 64)>>
    ELSE IF cp < 65536
        THEN <<224 + (cp \div 4096), 128 + ((cp \div 64) % 64), 128 + (cp % 64)>>
    ELSE <<240 + (cp \div 262144), 128 + ((cp \div 4096) % 64),
           128 + ((cp \div 64) % 64), 128 + (cp % 64)>>

RECURSIVE Utf8Encode(_)
Utf8Encode(text) ==
    IF text = <<>> THEN <<>>
    ELSE Utf8Char(Head(text)) \o Utf8Encode(Tail(text))

(* one byte per character, as 'latin-1' would encode *)
Latin1Body(content) == [i \in 1..Len(content) |-> content[i] % 256]

(* Body=content.encode('utf-8') *)
EncodedBody(content) == Utf8Encode(content)

IsCont(b) == b \in 128..191

RECURSIVE Utf8Decode(_)
Utf8Decode(bytes) ==
    IF bytes = <<>> THEN <<>>
    ELSE
        LET b1 == bytes[1]
            n == IF b1 < 128 THEN 1
                 ELSE IF b1 \in 194..223 THEN 2
                 ELSE IF b1 \in 224..239 THEN 3
                 ELSE IF b1 \in 240..244 THEN 4
                 ELSE 0
            wellFormed ==
                /\ n > 0
                /\ Len(bytes) >= n
                /\ \A i \in 2..n : IsCont(bytes[i])
            cp == IF n = 1 THEN b1
                  ELSE IF n = 2 THEN (b1 - 192) * 64 + (bytes[2] - 128)
                  ELSE IF n = 3
                      THEN (b1 - 224) * 4096 + (bytes[2] - 128) * 64 + (bytes[3] - 128)
                  ELSE (b1 - 240) * 262144 + (bytes[2] - 128) * 4096
                       + (bytes[3] - 128) * 64 + (bytes[4] - 128)
            scalar ==
                /\ n = 3 => (cp >= 2048 /\ cp \notin 55296..57343)
                /\ n = 4 => (cp >= 65536 /\ cp <= 1114111)
        IN  IF ~wellFormed THEN DecodeError
            ELSE IF ~scalar THEN DecodeError
            ELSE LET rest == Utf8Decode(SubSeq(bytes, n + 1, Len(bytes)))
                 IN  IF rest = DecodeError THEN DecodeError ELSE <<cp>> \o rest

(***************************************************************************)
(* Base64 (base64.b64encode / base64.b64decode with validate=False).       *)
(***************************************************************************)
Pad == Ord["="]

(* the alphabet: A-Z a-z 0-9 + / *)
B64Char(v) ==
    IF v < 26 THEN 65 + v
    ELSE IF v < 52 THEN 97 + (v - 26)
    ELSE IF v < 62 THEN 48 + (v - 52)
    ELSE IF v = 62 THEN Ord["+"]
    ELSE Ord["/"]

(* the value of an alphabet character, 64 for any other character *)
B64Value(c) ==
    IF c \in 65..90 THEN c - 65
    ELSE IF c \in 97..122 THEN c - 97 + 26
    ELSE IF c \in 48..57 THEN c - 48 + 52
    ELSE IF c = Ord["+"] THEN 62
    ELSE IF c = Ord["/"] THEN 63
    ELSE 64

RECURSIVE B64Encode(_)
B64Encode(bytes) ==
    IF bytes = <<>> THEN <<>>
    ELSE IF Len(bytes) = 1 THEN
        <<B64Char(bytes[1] \div 4), B64Char((bytes[1] % 4) * 16), Pad, Pad>>
    ELSE IF Len(bytes) = 2 THEN
        <<B64Char(bytes[1] \div 4),
          B64Char((bytes[1] % 4) * 16 + (bytes[2] \div 16)),
          B64Char((bytes[2] % 16) * 4), Pad>>
    ELSE
        <<B64Char(bytes[1] \div 4),
          B64Char((bytes[1] % 4) * 16 + (bytes[2] \div 16)),
          B64Char((bytes[2] % 16) * 4 + (bytes[3] \div 64)),
          B64Char(bytes[3] % 64)>>
        \o B64Encode(SubSeq(bytes, 4, Len(bytes)))

B64Error == "binascii.Error"

(***************************************************************************)
(* The decoder's scan (binascii.a2b_base64, not strict): characters        *)
(* outside the alphabet are skipped; a pad that completes a quad of which  *)
(* at least two characters are data ends the scan and whatever follows is  *)
(* ignored; input that ends inside a quad is an error.  quad is the number *)
(* of data characters of the current quad, left the bits carried over,     *)
(* pads the pads seen since the last data character.                       *)
(***************************************************************************)
RECURSIVE B64Scan(_, _, _, _, _)
B64Scan(s, quad, left, pads, out) ==
    IF s = <<>> THEN (IF quad # 0 THEN B64Error ELSE out)
    ELSE
        LET c == Head(s)
            v == B64Value(c)
        IN  IF c = Pad THEN
                IF quad >= 2 /\ quad + pads + 1 >= 4 THEN out
                ELSE B64Scan(Tail(s), quad, left,
                             IF quad >= 2 THEN pads + 1 ELSE pads, out)
            ELSE IF v = 64 THEN B64Scan(Tail(s), quad, left, pads, out)
            ELSE IF quad = 0 THEN B64Scan(Tail(s), 1, v, 0, out)
            ELSE IF quad = 1 THEN
                B64Scan(Tail(s), 2, v % 16, 0, Append(out, left * 4 + (v \div 16)))
            ELSE IF quad = 2 THEN
                B64Scan(Tail(s), 3, v % 4, 0, Append(out, left * 16 + (v \div 4)))
            ELSE B64Scan(Tail(s), 0, 0, 0, Append(out, left * 64 + v))

(* base64.b64decode(s) of a str: non-ASCII text is a ValueError *)
B64Decode(s) ==
    IF \E i \in 1..Len(s) : s[i] >= 128 THEN B64Error
    ELSE B64Scan(s, 0, 0, 0, <<>>)


(***************************************************************************)
(* Sizes.  An object size is a Python int of any magnitude; here it is a   *)
(* pair <<hi, lo>> standing for hi * Limb + lo with lo < Limb, so that     *)
(* sizes up to the petabyte range stay exact.                              *)
(***************************************************************************)
Kilo == 1024

Limb == Kilo * Kilo * Kilo

Big(n) == <<n \div Limb, n % Limb>>

BigAdd(a, b) == <<a[1] + b[1] + ((a[2] + b[2]) \div Limb), (a[2] + b[2]) % Limb>>

BigLt(a, b) == a[1] < b[1] \/ (a[1] = b[1] /\ a[2] < b[2])

(* a * 1024 *)
BigTimesKilo(a) ==
    <<a[1] * Kilo + (a[2] \div (Limb \div Kilo)), (a[2] % (Limb \div Kilo)) * Kilo>>

(* floor(a / 1024) *)
BigDivKilo(a) ==
    <<a[1] \div Kilo, (a[1] % Kilo) * (Limb \div Kilo) + (a[2] \div Kilo)>>

(* sum(obj['size'] for obj in objects) *)
RECURSIVE SumSizes(_)
SumSizes(entries) ==
    IF entries = <<>> THEN Big(0)
    ELSE BigAdd(Head(entries).size, SumSizes(Tail(entries)))

(***************************************************************************)
(* The model's universe.                                                   *)
(***************************************************************************)
BucketNames == {"b1", "b2"}

KeyDoc == Str(<<"a", ".", "M", "D">>)
KeyRaw == Str(<<"d", "/", "a", "m", "d">>)
KeyDir == Str(<<"d", "/", "x", "/">>)

(* keys the operations that take a key are tried with *)
Keys == {KeyDoc, KeyRaw, KeyDir}

(* keys copies and moves are tried from *)
SourceKeys == {KeyDoc, KeyRaw}

(* the most objects the storage holds at once *)
MaxObjects == 2

(* the most keys the service lists in one page (MaxKeys) *)
PageSize == 2

VARIABLES
    integration,        \* self.integration: is a credential provider configured
    _client,            \* self._client: None, or <<id>> for a client handle
    credentialsCalls,   \* how often integration.get_credentials() was called
    clientsBuilt,       \* how often boto3.client('s3', ...) was called
    buckets,            \* service: the names of the existing buckets
    policy,             \* service: bucket -> its policy text, or None
    objects,            \* service: <<bucket, key>> -> [body, size]
    written,            \* history: <<bucket, key>> -> the text put_object wrote
                        \*   there, while nothing else has written that key
    last                \* the last operation: its arguments, what it returned
                        \*   or raised, and the service calls it made

vars == <<integration, _client, credentialsCalls, clientsBuilt, buckets, policy,
          objects, written, last>>

service == <<buckets, policy, objects, written>>

(***************************************************************************)
(* The client property (self.client).                                      *)
(***************************************************************************)
(* a property that would build a client at every read *)
NeedsBuildAlways(c) == TRUE

(* `if not self._client` *)
NeedsBuild(c) == c = None

(* One read of the property with the field at c after `built` constructions:
   the field and the construction count afterwards. *)
ClientRead(st) ==
    IF NeedsBuild(st.client)
        THEN [client |-> <<st.built + 1>>, built |-> st.built + 1,
              creds |-> st.creds + 1]
        ELSE st

RECURSIVE ClientReads(_, _)
ClientReads(st, n) == IF n = 0 THEN st ELSE ClientReads(ClientRead(st), n - 1)

(* an operation starts when the caller has taken the last result *)
Ready == last.op = "idle"

(* an operation that reads the property n times *)
UseClient(n) ==
    LET st == ClientReads([client |-> _client, built |-> clientsBuilt,
                           creds |-> credentialsCalls], n)
    IN  /\ Ready
        /\ _client' = st.client
        /\ clientsBuilt' = st.built
        /\ credentialsCalls' = st.creds
        /\ UNCHANGED integration

NoClientUse == UNCHANGED <<integration, _client, clientsBuilt, credentialsCalls>>

(***************************************************************************)
(* How an operation ends.  The server runs one tool call at a time: an     *)
(* operation starts when the caller has taken the result of the one before *)
(* (Idle) and leaves its own result in last.                               *)
(***************************************************************************)
Returned(op, args, value, failed, calls) ==
    /\ last' = [op |-> op, args |-> args, outcome |-> "return", value |-> value,
                exc |-> "", failed |-> failed, calls |-> calls]

Raised(op, args, exc, failed, calls) ==
    /\ last' = [op |-> op, args |-> args, outcome |-> "raise", value |-> NoValue,
                exc |-> exc, failed |-> failed, calls |-> calls]

(* one request to the service and whether it succeeded *)
Req(api, ok) == [api |-> api, ok |-> ok]

(* the caller takes the result *)
TakeResult ==
    /\ ~Ready
    /\ last' = Idle
    /\ NoClientUse
    /\ UNCHANGED service

(* self.client raises ValueError("Integration not initialized") *)
NotInitialized(op, args) ==
    /\ Ready
    /\ Raised(op, args, "ValueError", FALSE, <<>>)
    /\ NoClientUse
    /\ UNCHANGED service

(***************************************************************************)
(* The storage service.  A call fails with a ClientError when the fault    *)
(* argument says so (access denied, throttling, the network) or when the   *)
(* service itself refuses it; the error code is "" for success.            *)
(***************************************************************************)
Present(b, k) == <<b, k>> \in DOMAIN objects

BucketError(b, fault) ==
    IF fault THEN "AccessDenied"
    ELSE IF b \notin buckets THEN "NoSuchBucket"
    ELSE ""

KeyError(b, k, fault) ==
    IF BucketError(b, fault) # "" THEN BucketError(b, fault)
    ELSE IF ~Present(b, k) THEN "NoSuchKey"
    ELSE ""

Stored(body) == [body |-> body, size |-> Big(Len(body))]

Without(f, slots) == [s \in (DOMAIN f) \ slots |-> f[s]]

With(f, slot, v) == [s \in (DOMAIN f) \cup {slot} |-> IF s = slot THEN v ELSE f[s]]

(* room for one more object at slot *)
Room(b, k) == Present(b, k) \/ Cardinality(DOMAIN objects) < MaxObjects

(* keys in the order the service lists them: by code point *)
KeyLess(a, b) ==
    \E i \in 1..(Len(a) + 1) :
        /\ i <= Len(b)
        /\ \A j \in 1..(i - 1) : j <= Len(a) /\ a[j] = b[j]
        /\ (i = Len(a) + 1 \/ a[i] < b[i])

RECURSIVE SortKeys(_)
SortKeys(S) ==
    IF S = {} THEN <<>>
    ELSE LET m == CHOOSE k \in S : \A o \in S \ {k} : KeyLess(k, o)
         IN  <<m>> \o SortKeys(S \ {m})

KeysUnder(b, prefix) ==
    {k \in {s[2] : s \in {t \in DOMAIN objects : t[1] = b}} : StartsWith(k, prefix)}

(* the Contents of a listing, in pages of at most PageSize entries *)
RECURSIVE Paginate(_)
Paginate(items) ==
    IF Len(items) <= PageSize THEN <<items>>
    ELSE <<SubSeq(items, 1, PageSize)>> \o Paginate(SubSeq(items, PageSize + 1, Len(items)))

ContentsPages(b, prefix) ==
    LET ks == SortKeys(KeysUnder(b, prefix))
    IN  Paginate([i \in 1..Len(ks) |-> [Key |-> ks[i], Size |-> objects[<<b, ks[i]>>].size]])

(* with Delimiter '/': the part of a key up to the first slash after the prefix *)
RECURSIVE UpToSlash(_, _)
UpToSlash(k, i) ==
    IF i > Len(k) THEN None
    ELSE IF k[i] = Slash THEN SubSeq(k, 1, i)
    ELSE UpToSlash(k, i + 1)

CommonPrefixPages(b, prefix) ==
    LET groups == {UpToSlash(k, Len(prefix) + 1) : k \in KeysUnder(b, prefix)} \ {None}
        ps == SortKeys(groups)
    IN  Paginate([i \in 1..Len(ps) |-> [Prefix |-> ps[i]]])

RECURSIVE Flatten(_)
Flatten(pages) == IF pages = <<>> THEN <<>> ELSE Head(pages) \o Flatten(Tail(pages))


(***************************************************************************)
(* Bucket operations.                                                      *)
(***************************************************************************)
BucketOrder == <<"b1", "b2">>

list_buckets(fault) ==
    IF ~integration THEN NotInitialized("list_buckets", [fault |-> fault])
    ELSE
        /\ UseClient(1)
        /\ UNCHANGED service
        /\ IF fault
             THEN Raised("list_buckets", [fault |-> fault], "ClientError", TRUE,
                         <<Req("ListBuckets", FALSE)>>)
             ELSE Returned("list_buckets", [fault |-> fault],
                           List(SelectSeq(BucketOrder, LAMBDA b : b \in buckets)),
                           FALSE, <<Req("ListBuckets", TRUE)>>)

create_bucket(bucket_name, region, fault) ==
    LET args == [bucket_name |-> bucket_name, region |-> region]
        err == IF fault THEN "AccessDenied"
               ELSE IF bucket_name \in buckets THEN "BucketAlreadyOwnedByYou"
               ELSE ""
    IN  IF ~integration THEN NotInitialized("create_bucket", args)
        ELSE
            /\ UseClient(1)
            /\ buckets' = IF err = "" THEN buckets \cup {bucket_name} ELSE buckets
            /\ UNCHANGED <<policy, objects, written>>
            /\ Returned("create_bucket", args, Bool(err = ""), err # "",
                        <<Req(IF region # None THEN "CreateBucket+LocationConstraint"
                              ELSE "CreateBucket", err = "")>>)

delete_bucket(bucket_name, fault) ==
    LET args == [bucket_name |-> bucket_name]
        err == IF BucketError(bucket_name, fault) # ""
                   THEN BucketError(bucket_name, fault)
               ELSE IF \E s \in DOMAIN objects : s[1] = bucket_name
                   THEN "BucketNotEmpty"
               ELSE ""
    IN  IF ~integration THEN NotInitialized("delete_bucket", args)
        ELSE
            /\ UseClient(1)
            /\ buckets' = IF err = "" THEN buckets \ {bucket_name} ELSE buckets
            /\ policy' = IF err = "" THEN [policy EXCEPT ![bucket_name] = None]
                         ELSE policy
            /\ UNCHANGED <<objects, written>>
            /\ Returned("delete_bucket", args, Bool(err = ""), err # "",
                        <<Req("DeleteBucket", err = "")>>)

(* json.dumps / json.loads of a policy document *)
JsonDumps(doc) == <<"json", doc>>
JsonLoads(text) == text[2]

get_bucket_policy(bucket_name, fault) ==
    LET args == [bucket_name |-> bucket_name]
        err == IF BucketError(bucket_name, fault) # ""
                   THEN BucketError(bucket_name, fault)
               ELSE IF policy[bucket_name] = None THEN "NoSuchBucketPolicy"
               ELSE ""
    IN  IF ~integration THEN NotInitialized("get_bucket_policy", args)
        ELSE
            /\ UseClient(1)
            /\ UNCHANGED service
            /\ Returned("get_bucket_policy", args,
                        IF err = "" THEN Dict(JsonLoads(policy[bucket_name]))
                        ELSE Dict([error |-> err]),
                        err # "", <<Req("GetBucketPolicy", err = "")>>)

put_bucket_policy(bucket_name, doc, fault) ==
    LET args == [bucket_name |-> bucket_name, policy |-> doc]
        err == BucketError(bucket_name, fault)
    IN  IF ~integration THEN NotInitialized("put_bucket_policy", args)
        ELSE
            /\ UseClient(1)
            /\ policy' = IF err = "" THEN [policy EXCEPT ![bucket_name] = JsonDumps(doc)]
                         ELSE policy
            /\ UNCHANGED <<buckets, objects, written>>
            /\ Returned("put_bucket_policy", args, Bool(err = ""), err # "",
                        <<Req("PutBucketPolicy", err = "")>>)

(***************************************************************************)
(* Hierarchy emulation and listing.                                        *)
(***************************************************************************)
(* one ListObjectsV2 call per page the paginator fetched *)
PageCalls(pages) == [i \in 1..Len(pages) |-> Req("ListObjectsV2", TRUE)]

list_prefixes(bucket_name, prefix, fault) ==
    LET args == [bucket_name |-> bucket_name, prefix |-> prefix]
        err == BucketError(bucket_name, fault)
        pages == CommonPrefixPages(bucket_name, prefix)
        found == Flatten(pages)
    IN  IF ~integration THEN NotInitialized("list_prefixes", args)
        ELSE
            /\ UseClient(1)
            /\ UNCHANGED service
            /\ IF err # ""
                 THEN Raised("list_prefixes", args, "ClientError", TRUE,
                             <<Req("ListObjectsV2", FALSE)>>)
                 ELSE Returned("list_prefixes", args,
                               List([i \in 1..Len(found) |-> found[i].Prefix]),
                               FALSE, PageCalls(pages))

PrefixKey(prefix_name, parent_prefix) ==
    IF parent_prefix # None
        THEN RStrip(parent_prefix, Slash) \o <<Slash>> \o prefix_name \o <<Slash>>
        ELSE prefix_name \o <<Slash>>

put_prefix(bucket_name, prefix_name, parent_prefix, fault) ==
    LET args == [bucket_name |-> bucket_name, prefix_name |-> prefix_name,
                 parent_prefix |-> parent_prefix]
        key == PrefixKey(prefix_name, parent_prefix)
        err == BucketError(bucket_name, fault)
    IN  IF ~integration THEN NotInitialized("put_prefix", args)
        ELSE
            /\ err = "" => Room(bucket_name, key)
            /\ UseClient(1)
            /\ UNCHANGED <<buckets, policy>>
            /\ IF err # ""
                 THEN /\ UNCHANGED <<objects, written>>
                      /\ Raised("put_prefix", args, "ClientError", TRUE,
                                  <<Req("PutObject", FALSE)>>)
                 ELSE /\ objects' = With(objects, <<bucket_name, key>>, Stored(<<>>))
                      /\ written' = Without(written, {<<bucket_name, key>>})
                      /\ Returned("put_prefix", args, Bool(TRUE), FALSE,
                                  <<Req("PutObject", TRUE)>>)

(* the loop of list_objects over the pages' Contents *)
ListEntries(pages) ==
    LET kept == SelectSeq(Flatten(pages), LAMBDA obj : ~EndsWith(obj.Key, <<Slash>>))
    IN  [i \in 1..Len(kept) |->
            [key |-> kept[i].Key, name |-> LastSegment(kept[i].Key),
             size |-> kept[i].Size]]

list_objects(bucket_name, prefix, fault) ==
    LET args == [bucket_name |-> bucket_name, prefix |-> prefix]
        err == BucketError(bucket_name, fault)
        pages == ContentsPages(bucket_name, prefix)
    IN  IF ~integration THEN NotInitialized("list_objects", args)
        ELSE
            /\ UseClient(1)
            /\ UNCHANGED service
            /\ IF err # ""
                 THEN Raised("list_objects", args, "ClientError", TRUE,
                             <<Req("ListObjectsV2", FALSE)>>)
                 ELSE Returned("list_objects", args, List(ListEntries(pages)),
                               FALSE, PageCalls(pages))

(* `if x` for an Optional[int] x: None and 0 are both false *)
Truthy(opt) == opt # None /\ opt[1] # Big(0)

(* the body of search_objects' loop: is obj kept *)
Kept(obj, name_pattern, min_size, max_size) ==
    /\ ~(name_pattern # <<>> /\ ~Contains(Lower(name_pattern), Lower(obj.name)))
    /\ ~(Truthy(min_size) /\ BigLt(obj.size, min_size[1]))
    /\ ~(Truthy(max_size) /\ BigLt(max_size[1], obj.size))

search_objects(bucket_name, prefix, name_pattern, min_size, max_size, fault) ==
    LET args == [bucket_name |-> bucket_name, prefix |-> prefix,
                 name_pattern |-> name_pattern, min_size |-> min_size,
                 max_size |-> max_size]
        err == BucketError(bucket_name, fault)
        pages == ContentsPages(bucket_name, prefix)
        all_objects == ListEntries(pages)
    IN  IF ~integration THEN NotInitialized("search_objects", args)
        ELSE
            /\ UseClient(1)
            /\ UNCHANGED service
            /\ IF err # ""
                 THEN Raised("search_objects", args, "ClientError", TRUE,
                             <<Req("ListObjectsV2", FALSE)>>)
                 ELSE Returned("search_objects",
                               args @@ [listed |-> all_objects],
                               List(SelectSeq(all_objects,
                                      LAMBDA obj : Kept(obj, name_pattern, min_size, max_size))),
                               FALSE, PageCalls(pages))

Units == <<"B", "KB", "MB", "GB", "TB">>

(* The unit loop.  total_size after k divisions is total / 1024^k, kept as
   the exact pair (total, k); `total_size < 1024.0` is total < 1024^(k+1),
   which bound carries. *)
RECURSIVE HumanSize(_, _, _, _)
HumanSize(total, k, bound, units) ==
    IF units = <<>> THEN [of |-> total, divisions |-> k, unit |-> "PB"]
    ELSE IF BigLt(total, bound) THEN [of |-> total, divisions |-> k, unit |-> Head(units)]
    ELSE HumanSize(total, k + 1, BigTimesKilo(bound), Tail(units))

(* the value total_size holds after the unit loop has divided it *)
TotalSizeBytesAfterLoop(entries) ==
    LET h == HumanSize(SumSizes(entries), 0, Big(Kilo), Units)
        RECURSIVE Div(_, _)
        Div(a, n) == IF n = 0 THEN a ELSE Div(BigDivKilo(a), n - 1)
    IN  Div(SumSizes(entries), h.divisions)

(* "total_size_bytes": the sizes summed again, after the loop *)
TotalSizeBytes(entries) == SumSizes(entries)

get_bucket_size(bucket_name, prefix, fault) ==
    LET args == [bucket_name |-> bucket_name, prefix |-> prefix]
        err == BucketError(bucket_name, fault)
        pages == ContentsPages(bucket_name, prefix)
        listed == ListEntries(pages)
    IN  IF ~integration THEN NotInitialized("get_bucket_size", args)
        ELSE
            /\ UseClient(1)
            /\ UNCHANGED service
            /\ IF err # ""
                 THEN Raised("get_bucket_size", args, "ClientError", TRUE,
                             <<Req("ListObjectsV2", FALSE)>>)
                 ELSE Returned("get_bucket_size", args @@ [listed |-> listed],
                               Dict([total_size_bytes |-> TotalSizeBytes(listed),
                                     human_readable_size |->
                                         HumanSize(SumSizes(listed), 0, Big(Kilo), Units),
                                     object_count |-> Len(listed)]),
                               FALSE, PageCalls(pages))


(***************************************************************************)
(* Object content operations.                                              *)
(***************************************************************************)
(* f"{prefix.rstrip('/')}/{object_name}" if prefix else object_name *)
ComposeKey(prefix, object_name) ==
    IF prefix # <<>> THEN RStrip(prefix, Slash) \o <<Slash>> \o object_name
    ELSE object_name

put_object(bucket_name, prefix, object_name, content, fault) ==
    LET key == ComposeKey(prefix, object_name)
        args == [bucket_name |-> bucket_name, prefix |-> prefix,
                 object_name |-> object_name, content |-> content, key |-> key]
        err == BucketError(bucket_name, fault)
    IN  IF ~integration THEN NotInitialized("put_object", args)
        ELSE
            /\ err = "" => Room(bucket_name, key)
            /\ UseClient(1)
            /\ UNCHANGED <<buckets, policy>>
            /\ IF err # ""
                 THEN /\ UNCHANGED <<objects, written>>
                      /\ Raised("put_object", args, "ClientError", TRUE,
                                  <<Req("PutObject", FALSE)>>)
                 ELSE /\ objects' = With(objects, <<bucket_name, key>>,
                                         Stored(EncodedBody(content)))
                      /\ written' = With(written, <<bucket_name, key>>, content)
                      /\ Returned("put_object", args, Bool(TRUE), FALSE,
                                  <<Req("PutObject", TRUE)>>)

(* put_object_from_base64: does the decoded payload reach the service *)
DecodedFirst(decoded) == decoded # B64Error

put_object_from_base64(bucket_name, prefix, object_name, base64_content, fault) ==
    LET key == ComposeKey(prefix, object_name)
        decoded == B64Decode(base64_content)
        args == [bucket_name |-> bucket_name, prefix |-> prefix,
                 object_name |-> object_name, base64_content |-> base64_content,
                 key |-> key, before |-> objects]
        err == BucketError(bucket_name, fault)
    IN  IF ~DecodedFirst(decoded) \/ ~integration
        THEN (* binascii.Error, or the property's ValueError: `except Exception` *)
            /\ Ready
            /\ NoClientUse
            /\ UNCHANGED service
            /\ Returned("put_object_from_base64", args, Bool(FALSE), FALSE, <<>>)
        ELSE
            /\ err = "" => Room(bucket_name, key)
            /\ UseClient(1)
            /\ UNCHANGED <<buckets, policy>>
            /\ IF err # ""
                 THEN /\ UNCHANGED <<objects, written>>
                      /\ Returned("put_object_from_base64", args, Bool(FALSE), TRUE,
                                  <<Req("PutObject", FALSE)>>)
                 ELSE /\ objects' = With(objects, <<bucket_name, key>>, Stored(decoded))
                      /\ written' = Without(written, {<<bucket_name, key>>})
                      /\ Returned("put_object_from_base64", args, Bool(TRUE), FALSE,
                                  <<Req("PutObject", TRUE)>>)

TextExtensions ==
    { Str(<<".", "t", "x", "t">>), Str(<<".", "c", "s", "v">>),
      Str(<<".", "j", "s", "o", "n">>), Str(<<".", "x", "m", "l">>),
      Str(<<".", "h", "t", "m", "l">>), Str(<<".", "m", "d">>),
      Str(<<".", "j", "s">>), Str(<<".", "c", "s", "s">>), Str(<<".", "p", "y">>) }

(* key.endswith((...)), the case of the key kept *)
IsTextFileCaseSensitive(key) == \E e \in TextExtensions : EndsWith(key, e)

(* key.lower().endswith((...)) *)
IsTextFile(key) == \E e \in TextExtensions : EndsWith(Lower(key), e)

(* "size": len(content) *)
ContentSize(content) == Len(content)

(* the dictionary get_object_content builds from the body it read *)
ContentDict(key, content) ==
    IF IsTextFile(key)
        THEN [name |-> LastSegment(key), content_type |-> "text",
              content |-> Utf8Decode(content), size |-> ContentSize(content)]
        ELSE [name |-> LastSegment(key), content_type |-> "binary",
              content_base64 |-> B64Encode(content), size |-> ContentSize(content)]

get_object_content(bucket_name, key, fault) ==
    LET args == [bucket_name |-> bucket_name, key |-> key]
        err == KeyError(bucket_name, key, fault)
        content == objects[<<bucket_name, key>>].body
    IN  IF ~integration THEN NotInitialized("get_object_content", args)
        ELSE
            /\ UseClient(1)
            /\ UNCHANGED service
            /\ IF err # ""
                 THEN Returned("get_object_content", args, Dict([error |-> err]),
                               TRUE, <<Req("GetObject", FALSE)>>)
               ELSE IF IsTextFile(key) /\ Utf8Decode(content) = DecodeError
                 THEN Raised("get_object_content", args, "UnicodeDecodeError", FALSE,
                             <<Req("GetObject", TRUE)>>)
               ELSE Returned("get_object_content", args @@ [body |-> content],
                             Dict(ContentDict(key, content)), FALSE,
                             <<Req("GetObject", TRUE)>>)

get_object_metadata(bucket_name, key, fault) ==
    LET args == [bucket_name |-> bucket_name, key |-> key]
        err == KeyError(bucket_name, key, fault)
    IN  IF ~integration THEN NotInitialized("get_object_metadata", args)
        ELSE
            /\ UseClient(1)
            /\ UNCHANGED service
            /\ Returned("get_object_metadata", args,
                        IF err # "" THEN Dict([error |-> err])
                        ELSE Dict([key |-> key, name |-> LastSegment(key),
                                   size |-> objects[<<bucket_name, key>>].size]),
                        err # "", <<Req("HeadObject", err = "")>>)

(***************************************************************************)
(* CopyObject.  The service refuses a copy whose source is missing; a copy *)
(* of an object onto itself is refused by some services (the fault) and    *)
(* accepted by others.                                                     *)
(***************************************************************************)
CopyError(source_bucket, source_key, dest_bucket, fault) ==
    IF KeyError(source_bucket, source_key, fault) # ""
        THEN KeyError(source_bucket, source_key, fault)
    ELSE BucketError(dest_bucket, FALSE)

AfterCopy(objs, source_bucket, source_key, dest_bucket, dest_key) ==
    With(objs, <<dest_bucket, dest_key>>, objs[<<source_bucket, source_key>>])

AfterDelete(objs, bucket_name, key) == Without(objs, {<<bucket_name, key>>})

copy_object(source_bucket, source_key, dest_bucket, dest_key, fault) ==
    LET args == [source_bucket |-> source_bucket, source_key |-> source_key,
                 dest_bucket |-> dest_bucket, dest_key |-> dest_key]
        err == CopyError(source_bucket, source_key, dest_bucket, fault)
    IN  IF ~integration THEN NotInitialized("copy_object", args)
        ELSE
            /\ err = "" => Room(dest_bucket, dest_key)
            /\ UseClient(1)
            /\ UNCHANGED <<buckets, policy>>
            /\ objects' = IF err = ""
                            THEN AfterCopy(objects, source_bucket, source_key,
                                           dest_bucket, dest_key)
                            ELSE objects
            /\ written' = IF err = "" THEN Without(written, {<<dest_bucket, dest_key>>})
                          ELSE written
            /\ Returned("copy_object", args, Bool(err = ""), err # "",
                        <<Req("CopyObject", err = "")>>)

delete_object(bucket_name, key, fault) ==
    LET args == [bucket_name |-> bucket_name, key |-> key]
        err == BucketError(bucket_name, fault)
    IN  IF ~integration THEN NotInitialized("delete_object", args)
        ELSE
            /\ UseClient(1)
            /\ UNCHANGED <<buckets, policy>>
            /\ objects' = IF err = "" THEN AfterDelete(objects, bucket_name, key)
                          ELSE objects
            /\ written' = IF err = "" THEN Without(written, {<<bucket_name, key>>})
                          ELSE written
            /\ Returned("delete_object", args, Bool(err = ""), err # "",
                        <<Req("DeleteObject", err = "")>>)

(* a move that would delete the source whatever the copy returned *)
DeletesUnconditionally(copied) == TRUE

(* move_object: `if self.copy_object(...)`: is the delete step taken *)
DeletesAfter(copied) == copied

(* move_object's result from the results of its two steps *)
MoveResult(copied, deleted) == IF copied THEN deleted ELSE FALSE

move_object(source_bucket, source_key, dest_bucket, dest_key, copy_fault, delete_fault) ==
    LET args == [source_bucket |-> source_bucket, source_key |-> source_key,
                 dest_bucket |-> dest_bucket, dest_key |-> dest_key,
                 before |-> objects]
        copy_err == CopyError(source_bucket, source_key, dest_bucket, copy_fault)
        copied == copy_err = ""
        mid == IF copied
                 THEN AfterCopy(objects, source_bucket, source_key, dest_bucket, dest_key)
                 ELSE objects
        deleting == DeletesAfter(copied)
        delete_err == BucketError(source_bucket, delete_fault)
        deleted == deleting /\ delete_err = ""
    IN  IF ~integration THEN NotInitialized("move_object", args)
        ELSE
            /\ copied => Room(dest_bucket, dest_key)
            /\ UseClient(IF deleting THEN 2 ELSE 1)
            /\ UNCHANGED <<buckets, policy>>
            /\ objects' = IF deleted THEN AfterDelete(mid, source_bucket, source_key)
                          ELSE mid
            /\ written' = Without(written,
                                  (IF copied THEN {<<dest_bucket, dest_key>>} ELSE {})
                                  \cup (IF deleted THEN {<<source_bucket, source_key>>}
                                        ELSE {}))
            /\ Returned("move_object",
                        args,
                        Bool(MoveResult(copied, deleted)),
                        ~copied \/ (deleting /\ delete_err # ""),
                        <<Req("CopyObject", copied)>>
                        \o (IF deleting THEN <<Req("DeleteObject", delete_err = "")>>
                            ELSE <<>>))

(* the keys of the response's Errors entries *)
ErrorKeys(response) == [i \in 1..Len(response.Errors) |-> response.Errors[i].Key]

(* the 'deleted' list: the keys of the response's Deleted entries *)
DeletedKeys(response) == [i \in 1..Len(response.Deleted) |-> response.Deleted[i].Key]

(* The DeleteObjects response for a request the service accepts: a key it
   could not delete (failing) is reported under Errors, every other key,
   present or not, under Deleted. *)
BatchResponse(keys, failing) ==
    [Deleted |-> LET ok == SelectSeq(keys, LAMBDA k : k \notin failing)
                 IN  [i \in 1..Len(ok) |-> [Key |-> ok[i]]],
     Errors |-> LET bad == SelectSeq(keys, LAMBDA k : k \in failing)
                IN  [i \in 1..Len(bad) |-> [Key |-> bad[i], Code |-> "AccessDenied"]]]

delete_objects(bucket_name, keys, fault, failing) ==
    LET args == [bucket_name |-> bucket_name, keys |-> keys, failing |-> failing,
                 existing |-> {keys[i] : i \in {j \in 1..Len(keys) :
                                                   Present(bucket_name, keys[j])}}]
        err == IF BucketError(bucket_name, fault) # ""
                   THEN BucketError(bucket_name, fault)
               ELSE IF keys = <<>> THEN "MalformedXML"
               ELSE ""
        response == BatchResponse(keys, failing)
        gone == {<<bucket_name, response.Deleted[i].Key>> : i \in 1..Len(response.Deleted)}
    IN  IF ~integration THEN NotInitialized("delete_objects", args)
        ELSE
            /\ UseClient(1)
            /\ UNCHANGED <<buckets, policy>>
            /\ objects' = IF err = "" THEN Without(objects, gone) ELSE objects
            /\ written' = IF err = "" THEN Without(written, gone) ELSE written
            /\ Returned("delete_objects", args,
                        IF err # "" THEN Dict([error |-> err])
                        ELSE Dict([deleted |-> DeletedKeys(response),
                                   errors |-> response.Errors]),
                        err # "", <<Req("DeleteObjects", err = "")>>)

DefaultExpiration == 3600

(* method_map.get(http_method.upper(), 'get_object') *)
SignedOperation(http_method) ==
    LET m == Upper(http_method)
    IN  IF m = Str(<<"G", "E", "T">>) THEN "get_object"
        ELSE IF m = Str(<<"P", "U", "T">>) THEN "put_object"
        ELSE IF m = Str(<<"D", "E", "L", "E", "T", "E">>) THEN "delete_object"
        ELSE "get_object"

generate_presigned_url(bucket_name, key, expiration, http_method, fault) ==
    LET args == [bucket_name |-> bucket_name, key |-> key, expiration |-> expiration,
                 http_method |-> http_method]
    IN  IF ~integration THEN NotInitialized("generate_presigned_url", args)
        ELSE
            /\ UseClient(1)
            /\ UNCHANGED service
            /\ Returned("generate_presigned_url", args,
                        IF fault THEN StrVal(<<"Error: ", "ClientError">>)
                        ELSE StrVal(<<"https://", SignedOperation(http_method),
                                      bucket_name, key, expiration>>),
                        fault, <<>>)

(***************************************************************************)
(* The registry.                                                           *)
(***************************************************************************)
ToolList ==
    << "create_bucket", "delete_bucket", "get_bucket_policy", "put_bucket_policy",
       "list_prefixes", "put_prefix", "list_objects", "put_object",
       "put_object_from_base64", "get_object_content", "get_object_metadata",
       "copy_object", "move_object", "delete_object", "delete_objects",
       "generate_presigned_url", "search_objects", "get_bucket_size" >>

list_tools ==
    /\ Ready
    /\ Returned("list_tools", [self |-> "app"], List(ToolList), FALSE, <<>>)
    /\ NoClientUse
    /\ UNCHANGED service

(* the storage operations the class defines *)
Operations ==
    { "list_buckets", "create_bucket", "delete_bucket", "get_bucket_policy",
      "put_bucket_policy", "list_prefixes", "put_prefix", "list_objects",
      "put_object", "put_object_from_base64", "get_object_content",
      "get_object_metadata", "copy_object", "move_object", "delete_object",
      "delete_objects", "generate_presigned_url", "search_objects",
      "get_bucket_size" }


(***************************************************************************)
(* The adapter after construction, over a service that holds one empty     *)
(* bucket, and the arguments its operations are tried with.                *)
(***************************************************************************)
NoObjects == [s \in {} |-> None]

Init ==
    /\ integration \in BOOLEAN
    /\ _client = None
    /\ credentialsCalls = 0
    /\ clientsBuilt = 0
    /\ buckets = {"b1"}
    /\ policy = [b \in BucketNames |-> None]
    /\ objects = NoObjects
    /\ written = NoObjects
    /\ last = Idle

Faults == BOOLEAN

Regions == {None, Str(<<"e", "u">>)}

PolicyDocs == {[Version |-> "2012-10-17"]}

(* the buckets whose policy is read and written *)
PolicyBuckets == {"b1"}

(* <<prefix, object_name>>: no prefix, and a prefix with and without its slash *)
PutTargets ==
    { <<<<>>, Str(<<"a", ".", "M", "D">>)>>,
      <<Str(<<"d", "/">>), Str(<<"a", "m", "d">>)>>,
      <<Str(<<"d">>), Str(<<"a", "m", "d">>)>> }

Contents == {<<>>, Str(<<"e'">>)}

Base64Inputs ==
    { Str(<<"w", "6", "k", "=">>), Str(<<"/", "w", "=", "=">>),
      Str(<<"/", "w">>), Str(<<"/", "w", "=", "=", "!">>) }

(* <<prefix_name, parent_prefix>> *)
PrefixTargets ==
    { <<Str(<<"x">>), Str(<<"d", "/">>)>>, <<Str(<<"d", "/", "x">>), None>> }

ListPrefixes == {<<>>, Str(<<"d", "/">>)}

Patterns == {<<>>, Str(<<".", "M">>)}

(* <<min_size, max_size>> *)
SizeBounds ==
    { <<None, None>>, <<<<Big(1)>>, None>>, <<None, <<Big(1)>>>>,
      <<None, <<Big(0)>>>>, <<<<Big(0)>>, <<Big(2)>>>> }

KeyBatches == {<<>>, <<KeyDoc>>, <<KeyDoc, KeyRaw>>, <<KeyRaw, KeyDir>>}

Methods == {Str(<<"p", "u", "t">>), Str(<<"D", "E", "L", "E", "T", "E">>),
            Str(<<"H", "E", "A", "D">>)}

Range(seq) == {seq[i] : i \in 1..Len(seq)}

(***************************************************************************)
(* The tool calls: each operation, invoked when the caller is ready, with  *)
(* any of the arguments above.                                             *)
(***************************************************************************)
ListBuckets == Ready /\ \E f \in Faults : list_buckets(f)

CreateBucket ==
    Ready /\ \E b \in BucketNames, r \in Regions, f \in Faults : create_bucket(b, r, f)

DeleteBucket == Ready /\ \E b \in BucketNames, f \in Faults : delete_bucket(b, f)

GetBucketPolicy == Ready /\ \E b \in PolicyBuckets, f \in Faults : get_bucket_policy(b, f)

PutBucketPolicy ==
    Ready /\ \E b \in PolicyBuckets, d \in PolicyDocs, f \in Faults :
                put_bucket_policy(b, d, f)

ListPrefixesCall ==
    Ready /\ \E b \in BucketNames, p \in ListPrefixes, f \in Faults :
                list_prefixes(b, p, f)

PutPrefix ==
    Ready /\ \E b \in BucketNames, t \in PrefixTargets, f \in Faults :
                put_prefix(b, t[1], t[2], f)

ListObjects ==
    Ready /\ \E b \in BucketNames, p \in ListPrefixes, f \in Faults :
                list_objects(b, p, f)

SearchObjects ==
    Ready /\ \E b \in BucketNames, p \in ListPrefixes, n \in Patterns,
                r \in SizeBounds, f \in Faults :
                search_objects(b, p, n, r[1], r[2], f)

GetBucketSize ==
    Ready /\ \E b \in BucketNames, p \in ListPrefixes, f \in Faults :
                get_bucket_size(b, p, f)

PutObject ==
    Ready /\ \E b \in BucketNames, t \in PutTargets, c \in Contents, f \in Faults :
                put_object(b, t[1], t[2], c, f)

PutObjectFromBase64 ==
    Ready /\ \E b \in BucketNames, t \in PutTargets, c \in Base64Inputs, f \in Faults :
                put_object_from_base64(b, t[1], t[2], c, f)

GetObjectContent ==
    Ready /\ \E b \in BucketNames, k \in Keys, f \in Faults : get_object_content(b, k, f)

GetObjectMetadata ==
    Ready /\ \E b \in BucketNames, k \in Keys, f \in Faults : get_object_metadata(b, k, f)

CopyObject ==
    Ready /\ \E sb \in BucketNames, sk \in SourceKeys, db \in BucketNames, dk \in Keys,
                f \in Faults :
                copy_object(sb, sk, db, dk, f)

MoveObject ==
    Ready /\ \E sb \in BucketNames, sk \in SourceKeys, db \in BucketNames, dk \in Keys,
                cf \in Faults, df \in Faults :
                move_object(sb, sk, db, dk, cf, df)

DeleteObject ==
    Ready /\ \E b \in BucketNames, k \in Keys, f \in Faults : delete_object(b, k, f)

DeleteObjects ==
    Ready /\ \E b \in BucketNames, ks \in KeyBatches, f \in Faults :
                \E failing \in SUBSET Range(ks) : delete_objects(b, ks, f, failing)

GeneratePresignedUrl ==
    Ready /\ \E b \in BucketNames, m \in Methods, f \in Faults :
                generate_presigned_url(b, KeyDoc, DefaultExpiration, m, f)

ListTools == Ready /\ list_tools

Next ==
    \/ ListBuckets \/ CreateBucket \/ DeleteBucket \/ GetBucketPolicy
    \/ PutBucketPolicy \/ ListPrefixesCall \/ PutPrefix \/ ListObjects
    \/ SearchObjects \/ GetBucketSize \/ PutObject \/ PutObjectFromBase64
    \/ GetObjectContent \/ GetObjectMetadata \/ CopyObject \/ MoveObject
    \/ DeleteObject \/ DeleteObjects \/ GeneratePresignedUrl \/ ListTools
    \/ TakeResult

Spec == Init /\ [][Next]_vars


(***************************************************************************)
(* Listing over a bucket that other clients have filled.  The objects are  *)
(* up to petabytes large, so they are carried by their size alone; the     *)
(* operations of this specification read no body.                          *)
(***************************************************************************)
Sized(size) == [size |-> size]

ReportsDir == Str(<<"r", "/">>)
KeyReport == Str(<<"r", "/", "R", "e", "p", "o", "r", "t", ".", "c", "s", "v">>)
KeyNotes == Str(<<"r", "/", "n", "o", "t", "e", "s">>)
KeyNested == Str(<<"r", "/", "q", "/", "r", "e", "p", "o", "r", "t", "2">>)

ListedKeys == {KeyReport, KeyNotes, KeyNested}

Mega == Kilo * Kilo

(* the sizes each listed object is tried with: every unit and both sides of
   the unit steps, alone and as sums *)
ListedSizes(k) ==
    IF k = KeyReport
        THEN { Big(0), Big(500), Big(1023), Big(1024), Big(Mega), <<1, 0>>,
               <<Kilo, 0>>, <<Mega - 1, Limb - 1>>, <<Mega, 0>> }
    ELSE IF k = KeyNotes THEN {Big(1), Big(1500)}
    ELSE {Big(300000), <<Mega, 0>>}

InitListing ==
    /\ integration = TRUE
    /\ _client = None
    /\ credentialsCalls = 0
    /\ clientsBuilt = 0
    /\ buckets = {"b1"}
    /\ policy = [b \in BucketNames |-> None]
    /\ \E present \in SUBSET ListedKeys :
         \E sizes \in [present -> UNION {ListedSizes(k) : k \in ListedKeys}] :
            /\ \A k \in present : sizes[k] \in ListedSizes(k)
            /\ objects = [s \in {<<"b1", k>> : k \in present \cup {ReportsDir}} |->
                             IF s[2] = ReportsDir THEN Sized(Big(0))
                             ELSE Sized(sizes[s[2]])]
    /\ written = NoObjects
    /\ last = Idle

ListedPrefixes == {<<>>, ReportsDir, Str(<<"r", "/", "q">>)}

ListedPatterns == {<<>>, Str(<<"r", "e", "p", "o", "r", "t">>), Str(<<"T", ".">>)}

ListedBounds ==
    { <<None, None>>, <<<<Big(1000)>>, None>>, <<None, <<Big(1500)>>>>,
      <<None, <<Big(0)>>>>, <<<<Big(0)>>, None>>, <<<<Big(1024)>>, <<<<1, 0>>>>>> }

ListObjectsListed ==
    Ready /\ \E p \in ListedPrefixes, f \in Faults : list_objects("b1", p, f)

SearchObjectsListed ==
    Ready /\ \E p \in ListedPrefixes, n \in ListedPatterns, r \in ListedBounds,
                f \in Faults :
                search_objects("b1", p, n, r[1], r[2], f)

GetBucketSizeListed ==
    Ready /\ \E p \in ListedPrefixes, f \in Faults : get_bucket_size("b1", p, f)

NextListing ==
    \/ ListObjectsListed \/ SearchObjectsListed \/ GetBucketSizeListed \/ TakeResult

SpecListing == InitListing /\ [][NextListing]_vars

(***************************************************************************)
(* Reading one stored object, whatever its key and body.                   *)
(***************************************************************************)
StoredKeys ==
    { Str(<<"a", ".", "t", "x", "t">>), Str(<<"A", ".", "T", "X", "T">>),
      Str(<<"d", "/", "b", ".", "C", "s", "V">>), Str(<<"c", ".", "j", "s", "o", "n">>),
      Str(<<"d", ".", "X", "M", "L">>), Str(<<"e", ".", "h", "t", "m", "l">>),
      Str(<<"f", ".", "m", "d">>), Str(<<"g", ".", "J", "s">>),
      Str(<<"h", ".", "c", "s", "s">>), Str(<<"i", ".", "p", "y">>),
      Str(<<".", "p", "y">>),
      Str(<<"a", "t", "x", "t">>), Str(<<"a", ".", "t", "x", "t", ".", "g", "z">>),
      Str(<<"a", ".", "t", "x">>), Str(<<"d", ".", "p", "y", "/", "x">>),
      Str(<<"a", ".", "m", "d", "/">>), Str(<<"i", ".", "p", "y", "c">>),
      Str(<<"n", "o", "t", "e", "s">>) }

StoredBodies ==
    { <<>>, <<104, 105>>, Utf8Encode(Str(<<"e'">>)), Utf8Encode(Str(<<"a", "euro">>)),
      <<255>>, <<195>> }

InitContent ==
    /\ integration \in BOOLEAN
    /\ _client \in {None, <<0>>}
    /\ credentialsCalls = 0
    /\ clientsBuilt = 0
    /\ buckets = {"b1"}
    /\ policy = [b \in BucketNames |-> None]
    /\ \E k \in StoredKeys, body \in StoredBodies :
            objects = [s \in {<<"b1", k>>} |-> Stored(body)]
    /\ written = NoObjects
    /\ last = Idle

GetObjectContentStored ==
    Ready /\ \E k \in StoredKeys, f \in Faults : get_object_content("b1", k, f)

GetObjectMetadataStored ==
    Ready /\ \E k \in StoredKeys, f \in Faults : get_object_metadata("b1", k, f)

NextContent == GetObjectContentStored \/ GetObjectMetadataStored \/ TakeResult

SpecContent == InitContent /\ [][NextContent]_vars


(***************************************************************************)
(* Properties.                                                             *)
(***************************************************************************)
BoolOps ==
    { "create_bucket", "delete_bucket", "put_bucket_policy", "put_prefix",
      "put_object", "put_object_from_base64", "copy_object", "move_object",
      "delete_object" }

DictOps ==
    { "get_bucket_policy", "get_object_content", "get_object_metadata",
      "delete_objects", "get_bucket_size" }

IsFalse(value) == value.kind = "bool" /\ value.v = FALSE

Succeeded == last.outcome = "return" /\ ~IsErrorDict(last.value)

(* C1: whenever the service fails an operation's call, the operation
   returns, and returns the failure as a value: False from the operations
   that return a boolean, {"error": ...} from those that return a
   dictionary, an "Error: " string from generate_presigned_url; no
   ClientError reaches the caller. *)
C1_ServiceFailureIsAValue ==
    last.failed =>
        /\ last.outcome = "return"
        /\ last.op \in BoolOps => IsFalse(last.value)
        /\ last.op \in DictOps => IsErrorDict(last.value)
        /\ last.op = "generate_presigned_url" =>
                (last.value.kind = "str" /\ last.value.v[1] = "Error: ")

(* C2: a move whose copy succeeded and whose delete failed returns False
   and leaves the object, as it was, at the source and at the destination;
   a move whose copy failed issues no delete, changes nothing and returns
   False. *)
C2_MoveIsCopyThenDelete ==
    (last.op = "move_object" /\ last.calls # <<>>) =>
        LET a == last.args
            src == <<a.source_bucket, a.source_key>>
            dst == <<a.dest_bucket, a.dest_key>>
        IN  /\ (last.calls[1].ok /\ Len(last.calls) = 2 /\ ~last.calls[2].ok) =>
                  /\ IsFalse(last.value)
                  /\ src \in DOMAIN objects /\ objects[src] = a.before[src]
                  /\ dst \in DOMAIN objects /\ objects[dst] = a.before[src]
            /\ ~last.calls[1].ok =>
                  /\ IsFalse(last.value)
                  /\ Len(last.calls) = 1
                  /\ objects = a.before

C2_Witness ==
    /\ last.op = "move_object"
    /\ Len(last.calls) = 2 /\ last.calls[1].ok /\ ~last.calls[2].ok
    /\ <<last.args.source_bucket, last.args.source_key>>
         # <<last.args.dest_bucket, last.args.dest_key>>

(* what follows the last dot of a key, the dot included *)
RECURSIVE Extension(_)
Extension(key) ==
    IF key = <<>> THEN <<>>
    ELSE IF Head(key) = Ord["."] /\ ~(\E i \in 2..Len(key) : key[i] = Ord["."])
        THEN key
    ELSE Extension(Tail(key))

HasTextExtension(key) == Lower(Extension(key)) \in TextExtensions

(* get_object_content has just read, with success, a key that holds what
   put_object wrote *)
ReadBack ==
    /\ last.op = "get_object_content"
    /\ Succeeded
    /\ <<last.args.bucket_name, last.args.key>> \in DOMAIN written

(* C3 as claimed: get_object_content on a key that put_object wrote, and
   nothing has written since, returns the text that was put, as text. *)
C3_RoundTripAsText ==
    ReadBack =>
        /\ "content" \in DOMAIN last.value.v
        /\ last.value.v.content = written[<<last.args.bucket_name, last.args.key>>]

(* C3, amended: it returns the text that was put under 'content' when the
   key has a text extension, and otherwise the base64 encoding of the
   text's UTF-8 bytes under 'content_base64'. *)
C3_RoundTrip ==
    ReadBack =>
        LET text == written[<<last.args.bucket_name, last.args.key>>]
            got == last.value.v
        IN  IF HasTextExtension(last.args.key)
                THEN "content" \in DOMAIN got /\ got.content = text
                ELSE /\ "content_base64" \in DOMAIN got
                     /\ B64Decode(got.content_base64) # B64Error
                     /\ B64Decode(got.content_base64) = Utf8Encode(text)

C3_Witness ==
    /\ ReadBack
    /\ "content" \in DOMAIN last.value.v
    /\ written[<<last.args.bucket_name, last.args.key>>] # <<>>

(* C4: delete_objects makes one DeleteObjects request and never raises;
   when the service accepts the request the result is a deleted/errors
   result whatever it reports per key: 'errors' holds exactly the failures
   the service reported, 'deleted' every other requested key, so that with
   failures reported for missing keys only, every requested key that
   existed is under 'deleted'; the keys under 'deleted' are gone. *)
C4_BatchDelete ==
    (last.op = "delete_objects" /\ last.calls # <<>>) =>
        /\ last.outcome = "return"
        /\ Len(last.calls) = 1 /\ last.calls[1].api = "DeleteObjects"
        /\ last.calls[1].ok =>
              LET got == last.value.v
                  a == last.args
              IN  /\ ~IsErrorDict(last.value)
                  /\ DOMAIN got = {"deleted", "errors"}
                  /\ a.failing \cap a.existing = {} =>
                        a.existing \subseteq Range(got.deleted)
                  /\ \A k \in a.existing \ a.failing :
                        /\ k \in Range(got.deleted)
                        /\ <<a.bucket_name, k>> \notin DOMAIN objects
                  /\ Range(got.deleted) \cap a.failing = {}
                  /\ {e.Key : e \in Range(got.errors)} = a.failing
                  /\ Len(got.deleted) + Len(got.errors) = Len(a.keys)

C4_Witness ==
    /\ last.op = "delete_objects"
    /\ last.calls # <<>> /\ last.calls[1].ok
    /\ last.args.existing # {}
    /\ last.args.failing # {}
    /\ last.args.failing \cap last.args.existing = {}

(* C5's filter: the pattern, when one is given, occurs in the name whatever
   the case, and the size is within every bound that is given, 0 included *)
Wanted(obj, name_pattern, min_size, max_size) ==
    /\ name_pattern # <<>> => Contains(Lower(name_pattern), Lower(obj.name))
    /\ min_size # None => ~BigLt(obj.size, min_size[1])
    /\ max_size # None => ~BigLt(max_size[1], obj.size)

(* C5: search_objects returns, in the order of the listing, exactly the
   listed entries whose name contains the pattern and whose size is within
   the bounds given. *)
C5_SearchFilters ==
    (last.op = "search_objects" /\ last.outcome = "return") =>
        last.value.v =
            SelectSeq(last.args.listed,
                      LAMBDA obj : Wanted(obj, last.args.name_pattern,
                                          last.args.min_size, last.args.max_size))

(* the objects under a prefix that are not folder markers *)
Files(b, prefix) ==
    {s \in DOMAIN objects :
        s[1] = b /\ StartsWith(s[2], prefix) /\ s[2][Len(s[2])] # Slash}

RECURSIVE SizeOfAll(_)
SizeOfAll(S) ==
    IF S = {} THEN Big(0)
    ELSE LET s == CHOOSE x \in S : TRUE
         IN  BigAdd(objects[s].size, SizeOfAll(S \ {s}))

(* the unit of a size: the first whose 1024-step the size is below *)
UnitOf(total) ==
    IF BigLt(total, Big(Kilo)) THEN "B"
    ELSE IF BigLt(total, Big(Mega)) THEN "KB"
    ELSE IF BigLt(total, <<1, 0>>) THEN "MB"
    ELSE IF BigLt(total, <<Kilo, 0>>) THEN "GB"
    ELSE IF BigLt(total, <<Mega, 0>>) THEN "TB"
    ELSE "PB"

SpecExample(S) ==
    /\ Cardinality(S) = 3
    /\ {objects[s].size : s \in S} = {Big(500), Big(1500), Big(300000)}

(* what get_bucket_size reports, but for the spec's worked example *)
SizeReport ==
    LET got == last.value.v
        S == Files(last.args.bucket_name, last.args.prefix)
    IN  /\ got.total_size_bytes = SizeOfAll(S)
        /\ got.object_count = Cardinality(S)
        /\ got.human_readable_size.unit = UnitOf(SizeOfAll(S))
        /\ got.human_readable_size.of = SizeOfAll(S)

(* C6 as claimed: get_bucket_size reports the exact sum of the sizes of the
   objects under the prefix, their number, and the size in the first unit
   of B, KB, MB, GB, TB in which it is below 1024, else in PB; sizes 500,
   1500 and 300000 give 301800 bytes, in KB. *)
C6_BucketSizeAsClaimed ==
    (last.op = "get_bucket_size" /\ last.outcome = "return") =>
        /\ SizeReport
        /\ SpecExample(Files(last.args.bucket_name, last.args.prefix)) =>
              /\ last.value.v.total_size_bytes = Big(301800)
              /\ last.value.v.human_readable_size.unit = "KB"

(* C6, amended: the same, but sizes 500, 1500 and 300000 give 302000
   bytes, in KB. *)
C6_BucketSize ==
    (last.op = "get_bucket_size" /\ last.outcome = "return") =>
        /\ SizeReport
        /\ SpecExample(Files(last.args.bucket_name, last.args.prefix)) =>
              /\ last.value.v.total_size_bytes = Big(302000)
              /\ last.value.v.human_readable_size.unit = "KB"

C6_Witness ==
    /\ last.op = "get_bucket_size" /\ last.outcome = "return"
    /\ SpecExample(Files(last.args.bucket_name, last.args.prefix))
    /\ last.value.v.human_readable_size.unit = "KB"

(* C7: a successful get_object_content returns the decoded text under
   'content', tagged text, exactly when the key's extension, whatever its
   case, is one of the text extensions, and otherwise the base64 of the
   bytes under 'content_base64', tagged binary; never both fields; 'size' is
   the number of bytes of the body. *)
C7_TextOrBinary ==
    (last.op = "get_object_content" /\ Succeeded) =>
        LET got == last.value.v
            body == last.args.body
        IN  /\ got.size = Len(body)
            /\ ~({"content", "content_base64"} \subseteq DOMAIN got)
            /\ IF HasTextExtension(last.args.key)
                 THEN /\ got.content_type = "text"
                      /\ "content" \in DOMAIN got
                      /\ Utf8Encode(got.content) = body
                 ELSE /\ got.content_type = "binary"
                      /\ "content_base64" \in DOMAIN got
                      /\ got.content_base64 = B64Encode(body)
                      /\ B64Decode(got.content_base64) = body

C7_Witness ==
    /\ last.op = "get_object_content" /\ Succeeded
    /\ last.args.key # Lower(last.args.key)
    /\ last.value.v.content_type = "text"
    /\ Len(last.value.v.content) < last.value.v.size

(* a base64 string in the form RFC 4648 gives: whole quads of alphabet
   characters, the last one closed by at most two pads *)
IsBase64(s) ==
    /\ Len(s) % 4 = 0
    /\ \E pads \in 0..2 :
          /\ pads <= Len(s)
          /\ \A i \in 1..Len(s) :
                IF i > Len(s) - pads THEN s[i] = Pad ELSE B64Value(s[i]) < 64

(* C8: put_object_from_base64 with a valid base64 string stores the decoded
   bytes, so that the metadata of the key gives their number as its size;
   with an invalid one it returns False and stores nothing. *)
C8_Base64Upload ==
    last.op = "put_object_from_base64" =>
        LET a == last.args
        IN  IF IsBase64(a.base64_content)
                THEN last.value.v =>
                        objects[<<a.bucket_name, a.key>>].size
                            = Big(Len(B64Decode(a.base64_content)))
                ELSE IsFalse(last.value) /\ objects = a.before

(* C9: with a credential provider, the credentials are read and the client
   is built at most once, and once the handle is set every operation leaves
   it, and the two counts, as they are. *)
C9_ClientBuiltOnce ==
    [][ /\ clientsBuilt' <= 1
        /\ credentialsCalls' <= 1
        /\ _client # None =>
              UNCHANGED <<_client, clientsBuilt, credentialsCalls>> ]_vars

C9_Witness ==
    /\ last.op = "move_object"
    /\ Len(last.calls) = 2
    /\ _client # None
    /\ clientsBuilt = 1
    /\ objects # NoObjects

(* C10: the registry holds every storage operation of the class, each
   once, and nothing else. *)
C10_RegistryIsComplete ==
    last.op = "list_tools" =>
        /\ Range(last.value.v) = Operations
        /\ Len(last.value.v) = Cardinality(Operations)

(* move_object has just returned True *)
Moved ==
    /\ last.op = "move_object"
    /\ last.outcome = "return"
    /\ last.value.kind = "bool" /\ last.value.v

(* the destination holds what the source held before the move *)
Delivered ==
    LET a == last.args
        src == <<a.source_bucket, a.source_key>>
        dst == <<a.dest_bucket, a.dest_key>>
    IN  dst \in DOMAIN objects /\ objects[dst] = a.before[src]

(* C11: whenever move_object returns True, the destination afterwards holds
   the content the source had before the call, for every source and
   destination, the destination being the source included. *)
C11_MoveDelivers == Moved => Delivered

(* the same, for the moves whose destination is not their source *)
C11_MoveElsewhereDelivers ==
    (Moved /\ <<last.args.source_bucket, last.args.source_key>>
                # <<last.args.dest_bucket, last.args.dest_key>>) => Delivered

=============================================================================
